---- MODULE Spec2Model ----
(***************************************************************************)
(* Model of process_invoices.py (InvoiceProcessor): the field parsers, the *)
(* batch document processors, the price history builder, the price change  *)
(* analyzer and run().  Texts are strings; a regular expression is         *)
(* modelled by an operator that accepts the same strings and returns the   *)
(* same groups.  A float is modelled by the exact rational <<n, d>> its    *)
(* decimal literal (or a quotient of two such) denotes.                    *)
(***************************************************************************)
EXTENDS Integers, Sequences, FiniteSets, TLC

(***************************************************************************)
(* State                                                                   *)
(***************************************************************************)
VARIABLES
    pc,                \* the operation that runs next, or what has run
    sort_ties,         \* the order this build's quicksort leaves equal keys in
    lines,             \* parse_line_items: text.split('\n')
    line_no,           \* parse_line_items: the index of the line the loop is at
    in_items_section,  \* parse_line_items: the flag of the same name
    items,             \* parse_line_items: the list of the same name
    item_lines,        \* history: the line number that produced each element of items
    invoices,          \* the list process_all_invoices returned
    receipts,          \* the list process_all_receipts returned
    price_df,          \* the frame create_price_tracking returned
    price_changes,     \* the list analyze_price_changes built
    error,             \* the exception that left the last operation, "" when none
    fs,                \* the files: path -> content
    receipts_dir,      \* self.receipts_dir as [path, exists]
    stdout,            \* what the last run() printed
    runs,              \* how many times run() was called
    first_fs           \* history: the files as the first run() left them

vars == <<pc, sort_ties, lines, line_no, in_items_section, items, item_lines, invoices,
          receipts, price_df, price_changes, error, fs, receipts_dir, stdout, runs, first_fs>>

parseVars == <<lines, line_no, in_items_section, items, item_lines>>

runVars == <<fs, receipts_dir, stdout, runs, first_fs>>

Ties == {"keep", "reverse"}

NoFrame == [columns |-> <<>>, rows |-> <<>>]

NoDir == [path |-> "", exists |-> FALSE]

ParseIdle == /\ lines = <<>> /\ line_no = 1 /\ in_items_section = FALSE
             /\ items = <<>> /\ item_lines = <<>>

PricesIdle == invoices = <<>> /\ receipts = <<>> /\ price_df = NoFrame /\ price_changes = <<>>

RunIdle == /\ fs = <<>> /\ receipts_dir = NoDir /\ stdout = <<>> /\ runs = 0 /\ first_fs = <<>>


(***************************************************************************)
(* Characters and strings (Python str methods and regex character classes) *)
(***************************************************************************)
Ch(s, i) == SubSeq(s, i, i)

From(s, i) == SubSeq(s, i, Len(s))

MinOf(S) == CHOOSE x \in S : \A y \in S : x <= y

MaxOf(S) == CHOOSE x \in S : \A y \in S : y <= x

DigitChars == "0123456789"

\* the regex class \d
IsDigit(c) == \E k \in 1..Len(DigitChars) : Ch(DigitChars, k) = c

DigitVal(c) == (CHOOSE k \in 1..Len(DigitChars) : Ch(DigitChars, k) = c) - 1

\* the regex class \s, and the characters str.strip() removes
IsSpace(c) == c \in {" ", "\n"}

\* the regex \d+ matched against a whole token
AllDigits(s) == Len(s) > 0 /\ \A i \in 1..Len(s) : IsDigit(Ch(s, i))

\* the regex [\d.]+ matched against a whole token
AllDecimal(s) == Len(s) > 0 /\ \A i \in 1..Len(s) : IsDigit(Ch(s, i)) \/ Ch(s, i) = "."

\* `sub in s`
Contains(s, sub) == \E i \in 1..(Len(s) - Len(sub) + 1) : SubSeq(s, i, i + Len(sub) - 1) = sub

LowerChars == "abcdefghijklmnopqrstuvwxyz"

UpperChars == "ABCDEFGHIJKLMNOPQRSTUVWXYZ"

UpperCh(c) == IF \E k \in 1..Len(LowerChars) : Ch(LowerChars, k) = c
              THEN Ch(UpperChars, CHOOSE k \in 1..Len(LowerChars) : Ch(LowerChars, k) = c)
              ELSE c

\* str.upper()
RECURSIVE upper(_)
upper(s) == IF Len(s) = 0 THEN "" ELSE UpperCh(Ch(s, 1)) \o upper(From(s, 2))

\* str.strip()
strip(s) == LET keep == {i \in 1..Len(s) : ~IsSpace(Ch(s, i))}
            IN  IF keep = {} THEN "" ELSE SubSeq(s, MinOf(keep), MaxOf(keep))

\* str.split(sep) for a one-character separator
RECURSIVE split(_, _)
split(s, sep) == LET at == {i \in 1..Len(s) : Ch(s, i) = sep}
                 IN  IF at = {} THEN <<s>>
                     ELSE <<SubSeq(s, 1, MinOf(at) - 1)>> \o split(From(s, MinOf(at) + 1), sep)

\* The order of two characters by code point (the order Python compares str by),
\* for the characters the model's texts use.
CodeOrder == " #-./0123456789:ABCDEFGHIJKLMNOPQRSTUVWXYZabcdefghijklmnopqrstuvwxyz"

Ord(c) == CHOOSE k \in 1..Len(CodeOrder) : Ch(CodeOrder, k) = c

\* Python's s < t on str
RECURSIVE StrLess(_, _)
StrLess(s, t) == IF Len(t) = 0 THEN FALSE
                 ELSE IF Len(s) = 0 THEN TRUE
                 ELSE IF Ch(s, 1) = Ch(t, 1) THEN StrLess(From(s, 2), From(t, 2))
                 ELSE Ord(Ch(s, 1)) < Ord(Ch(t, 1))

(***************************************************************************)
(* Numbers: int(), float() and float arithmetic as exact rationals         *)
(***************************************************************************)
RECURSIVE Gcd(_, _)
Gcd(a, b) == IF b = 0 THEN a ELSE Gcd(b, a % b)

\* the rational n/d (n >= 0, d > 0) in lowest terms
Rat(n, d) == LET g == Gcd(n, d) IN <<n \div g, d \div g>>

RECURSIVE Pow10(_)
Pow10(k) == IF k = 0 THEN 1 ELSE 10 * Pow10(k - 1)

\* int(s) for s matching \d+
RECURSIVE int(_)
int(s) == IF Len(s) = 0 THEN 0 ELSE 10 * int(SubSeq(s, 1, Len(s) - 1)) + DigitVal(Ch(s, Len(s)))

\* float(s) for s matching [\d.]+ : a decimal literal with at most one point and at
\* least one digit, and ValueError for every other string of digits and points
float(s) == LET dots == {i \in 1..Len(s) : Ch(s, i) = "."}
            IN  IF Cardinality(dots) > 1 \/ Cardinality(dots) = Len(s)
                THEN [ok |-> FALSE, value |-> <<0, 1>>]
                ELSE IF dots = {}
                THEN [ok |-> TRUE, value |-> Rat(int(s), 1)]
                ELSE LET p == MinOf(dots)
                     IN  [ok |-> TRUE,
                          value |-> Rat(int(SubSeq(s, 1, p - 1) \o From(s, p + 1)), Pow10(Len(s) - p))]

\* amount - quantity in the place of amount / quantity
RatDiv_sub(r, q) == <<r[1] - q * r[2], r[2]>>

\* amount / quantity on floats (quantity an int > 0)
RatDiv(r, q) == Rat(r[1], r[2] * q)

\* r < s, r = s is equality of the normalised pairs
RatLess(r, s) == r[1] * s[2] < s[1] * r[2]

(***************************************************************************)
(* Field Parser, invoice variant                                           *)
(***************************************************************************)
\* The positions at which `label`, then at least minSpaces and any number of \s,
\* then (when hash) an optional '#' and any number of \s, is followed by a
\* non-space character at the position returned: the prefix of the regexes
\* 'DATE\s+(', 'Date:\s*(', 'INVOICE\s+(', 'Receipt\s*#?\s*(' and the like.
AfterLabel(t, i, label, minSpaces, hash) ==
    IF i + Len(label) - 1 > Len(t) \/ SubSeq(t, i, i + Len(label) - 1) # label THEN 0
    ELSE LET a  == i + Len(label)
             e1 == MinOf({j \in a..(Len(t) + 1) : j = Len(t) + 1 \/ ~IsSpace(Ch(t, j))})
             e2 == IF hash /\ e1 <= Len(t) /\ Ch(t, e1) = "#" THEN e1 + 1 ELSE e1
             e3 == MinOf({j \in e2..(Len(t) + 1) : j = Len(t) + 1 \/ ~IsSpace(Ch(t, j))})
             e  == IF hash THEN e3 ELSE e1
         IN  IF e1 - a < minSpaces THEN 0 ELSE e

\* \d{2}<sep>\d{2}<sep>\d{4} at position j
IsDateAt(t, j, sep) ==
    /\ j >= 1 /\ j + 9 <= Len(t)
    /\ \A k \in {0, 1, 3, 4, 6, 7, 8, 9} : IsDigit(Ch(t, j + k))
    /\ Ch(t, j + 2) = sep /\ Ch(t, j + 5) = sep

\* re.search(label + spaces + r'(\d{2}/\d{2}/\d{4})', t): group 1 of the leftmost match
SearchLabelledDate(t, label, minSpaces) ==
    LET at == {i \in 1..Len(t) : LET j == AfterLabel(t, i, label, minSpaces, FALSE)
                                 IN  j > 0 /\ IsDateAt(t, j, "/")}
    IN  IF at = {} THEN [found |-> FALSE, group |-> ""]
        ELSE LET j == AfterLabel(t, MinOf(at), label, minSpaces, FALSE)
             IN  [found |-> TRUE, group |-> SubSeq(t, j, j + 9)]

\* re.search(r'(\d{2}<sep>\d{2}<sep>\d{4})', t)
SearchBareDate(t, sep) ==
    LET at == {j \in 1..Len(t) : IsDateAt(t, j, sep)}
    IN  IF at = {} THEN [found |-> FALSE, group |-> ""]
        ELSE [found |-> TRUE, group |-> SubSeq(t, MinOf(at), MinOf(at) + 9)]

\* the maximal run of digits starting at j (the greedy \d+)
DigitRunEnd(t, j) == MinOf({k \in j..(Len(t) + 1) : k = Len(t) + 1 \/ ~IsDigit(Ch(t, k))}) - 1

\* re.search(label + r'\s+(\d+)' or label + r'\s*#?\s*(\d+)', t): group 1
SearchLabelledNumber(t, label, minSpaces, hash) ==
    LET ok(i) == LET j == AfterLabel(t, i, label, minSpaces, hash)
                 IN  j > 0 /\ j <= Len(t) /\ IsDigit(Ch(t, j))
        at == {i \in 1..Len(t) : ok(i)}
    IN  IF at = {} THEN [found |-> FALSE, group |-> ""]
        ELSE LET j == AfterLabel(t, MinOf(at), label, minSpaces, hash)
             IN  [found |-> TRUE, group |-> SubSeq(t, j, DigitRunEnd(t, j))]

parse_invoice_date(text) ==
    LET m == SearchLabelledDate(text, "DATE", 1) IN IF m.found THEN m.group ELSE ""

parse_invoice_number(text) ==
    LET m == SearchLabelledNumber(text, "INVOICE", 1, FALSE) IN IF m.found THEN m.group ELSE ""

\* The last whitespace-separated field of a stripped line, and the line before it
\* with the separating whitespace removed.
LastField(l) ==
    LET sp == {i \in 1..Len(l) : IsSpace(Ch(l, i))}
    IN  IF sp = {} THEN [ok |-> FALSE, head |-> "", last |-> l]
        ELSE [ok |-> TRUE, head |-> strip(SubSeq(l, 1, MaxOf(sp))), last |-> From(l, MaxOf(sp) + 1)]

\* re.match(r'^(.+?)\s+(\d+)\s+([\d.]+)\s+([\d.]+)$', line) on a stripped line: the
\* anchors fix groups 2..4 as the last three fields, group 1 is what precedes them
InvoiceItemMatch(line) ==
    LET a == LastField(line)
        r == LastField(a.head)
        q == LastField(r.head)
    IN  [matched |-> /\ a.ok /\ r.ok /\ q.ok
                     /\ AllDecimal(a.last) /\ AllDecimal(r.last) /\ AllDigits(q.last),
         description |-> q.head, quantity |-> q.last, rate |-> r.last, amount |-> a.last]

InvoiceSkipTerms == {"BILL TO", "SHIP TO", "INVOICE"}

IsHeaderLine(line) == Contains(line, "DESCRIPTION") /\ Contains(line, "QTY") /\ Contains(line, "RATE")

IsStopLine(line) == Contains(line, "VERIFIED") \/ Contains(line, "TOTAL DUE") \/ Contains(line, "PAYMENT")

\* One iteration of the loop of parse_line_items over the raw line `raw`, from the
\* loop state st = [in_items_section, items, error]; error is the exception that
\* left the function, "" while there is none.
LineItemsStep(st, raw) ==
    LET line == strip(raw)
        m    == InvoiceItemMatch(line)
    IN  IF IsHeaderLine(line) THEN [st EXCEPT !.in_items_section = TRUE]
        ELSE IF IsStopLine(line) THEN [st EXCEPT !.in_items_section = FALSE]
        ELSE IF ~st.in_items_section \/ line = "" THEN st
        ELSE IF ~m.matched THEN st
        ELSE IF \E term \in InvoiceSkipTerms : Contains(upper(strip(m.description)), term) THEN st
        ELSE IF ~float(m.rate).ok \/ ~float(m.amount).ok THEN [st EXCEPT !.error = "ValueError"]
        ELSE [st EXCEPT !.items = Append(@, [description |-> strip(m.description),
                                              quantity    |-> int(m.quantity),
                                              rate        |-> float(m.rate).value,
                                              amount      |-> float(m.amount).value])]

RECURSIVE LineItemsLoop(_, _, _)
LineItemsLoop(st, text_lines, k) ==
    IF k > Len(text_lines) \/ st.error # "" THEN st
    ELSE LineItemsLoop(LineItemsStep(st, text_lines[k]), text_lines, k + 1)

\* parse_line_items(text): [error, items]; the items are lost when it raises
parse_line_items(text) ==
    LET st == LineItemsLoop([in_items_section |-> FALSE, items |-> <<>>, error |-> ""],
                            split(text, "\n"), 1)
    IN  [error |-> st.error, items |-> IF st.error = "" THEN st.items ELSE <<>>]

(***************************************************************************)
(* Field Parser, receipt variant                                           *)
(***************************************************************************)
\* \d{1,2}/\d{1,2}/\d{4} at position j with a digits of month and b digits of day
IsShortDateAt(t, j, a, b) ==
    /\ j >= 1 /\ j + a + b + 5 <= Len(t)
    /\ \A k \in 0..(a - 1) : IsDigit(Ch(t, j + k))
    /\ Ch(t, j + a) = "/"
    /\ \A k \in 1..b : IsDigit(Ch(t, j + a + k))
    /\ Ch(t, j + a + b + 1) = "/"
    /\ \A k \in 2..5 : IsDigit(Ch(t, j + a + b + k))

\* re.search(r'(\d{1,2}/\d{1,2}/\d{4})', t)
SearchShortDate(t) ==
    LET fits == {w \in (1..Len(t)) \X {1, 2} \X {1, 2} : IsShortDateAt(t, w[1], w[2], w[3])}
    IN  IF fits = {} THEN [found |-> FALSE, group |-> ""]
        ELSE LET j == MinOf({w[1] : w \in fits})
                 w == CHOOSE w \in fits : w[1] = j
             IN  [found |-> TRUE, group |-> SubSeq(t, j, j + w[2] + w[3] + 5)]

parse_receipt_date(text) ==
    LET p1 == SearchLabelledDate(text, "DATE", 1)
        p2 == SearchLabelledDate(text, "Date:", 0)
        p3 == SearchBareDate(text, "/")
        p4 == SearchShortDate(text)
        p5 == SearchBareDate(text, "-")
    IN  IF p1.found THEN p1.group
        ELSE IF p2.found THEN p2.group
        ELSE IF p3.found THEN p3.group
        ELSE IF p4.found THEN p4.group
        ELSE IF p5.found THEN p5.group
        ELSE ""

parse_receipt_number(text) ==
    LET p1 == SearchLabelledNumber(text, "RECEIPT", 1, FALSE)
        p2 == SearchLabelledNumber(text, "Receipt", 0, TRUE)
        p3 == SearchLabelledNumber(text, "REF", 0, TRUE)
        p4 == SearchLabelledNumber(text, "Reference", 0, TRUE)
    IN  IF p1.found THEN p1.group
        ELSE IF p2.found THEN p2.group
        ELSE IF p3.found THEN p3.group
        ELSE IF p4.found THEN p4.group
        ELSE ""

\* re.match(r'^(.+?)\s+(\d+)\s+([\d.]+)$', line) on a stripped line
ReceiptMatch1(line) ==
    LET a == LastField(line)
        q == LastField(a.head)
    IN  [matched |-> a.ok /\ q.ok /\ AllDecimal(a.last) /\ AllDigits(q.last),
         description |-> q.head, quantity |-> q.last, amount |-> a.last]

\* re.match(r'^(.+?)\s+([\d.]+)$', line) on a stripped line
ReceiptMatch2(line) ==
    LET a == LastField(line)
    IN  [matched |-> a.ok /\ AllDecimal(a.last), description |-> a.head, amount |-> a.last]

ReceiptSkipTerms1 == {"BILL TO", "SHIP TO", "INVOICE"}

\* the skip terms of pattern 1 in the place of those of pattern 2
ReceiptSkipTerms2_short == {"BILL TO", "SHIP TO", "INVOICE"}

ReceiptSkipTerms2 == {"TOTAL", "TAX", "SUBTOTAL", "PAYMENT", "CHANGE", "CASH", "CREDIT",
                      "BILL TO", "SHIP TO", "INVOICE"}

\* the item pattern 1 appends: rate = amount / quantity if quantity > 0 else amount
ReceiptItem1_amount(description, quantity, amount) ==
    [description |-> description, quantity |-> quantity, rate |-> amount, amount |-> amount]

ReceiptItem1(description, quantity, amount) ==
    [description |-> description,
     quantity    |-> quantity,
     rate        |-> IF quantity > 0 THEN RatDiv(amount, quantity) ELSE amount,
     amount      |-> amount]

\* the item pattern 2 appends
ReceiptItem2(description, amount) ==
    [description |-> description, quantity |-> 1, rate |-> amount, amount |-> amount]

\* the body of `if item_match1:`, which ends in `continue` on every path
ReceiptPattern1(st, m1) ==
    IF \E term \in ReceiptSkipTerms1 : Contains(upper(strip(m1.description)), term) THEN st
    ELSE IF ~float(m1.amount).ok THEN [st EXCEPT !.error = "ValueError"]
    ELSE [st EXCEPT !.items = Append(@, ReceiptItem1(strip(m1.description), int(m1.quantity),
                                                     float(m1.amount).value))]

\* pattern 2, tried on the lines pattern 1 did not match
ReceiptPattern2(st, m2) ==
    IF ~(m2.matched /\ Len(m2.description) > 3) THEN st
    ELSE IF ~float(m2.amount).ok THEN [st EXCEPT !.error = "ValueError"]
    ELSE IF \E term \in ReceiptSkipTerms2 : Contains(upper(strip(m2.description)), term) THEN st
    ELSE [st EXCEPT !.items = Append(@, ReceiptItem2(strip(m2.description), float(m2.amount).value))]

ReceiptItemsStep_retry(st, raw) ==
    IF strip(raw) = "" THEN st
    ELSE IF ReceiptMatch1(strip(raw)).matched
    THEN ReceiptPattern2(ReceiptPattern1(st, ReceiptMatch1(strip(raw))), ReceiptMatch2(strip(raw)))
    ELSE ReceiptPattern2(st, ReceiptMatch2(strip(raw)))

\* One iteration of the loop of parse_receipt_items, from st = [items, error].
ReceiptItemsStep(st, raw) ==
    IF strip(raw) = "" THEN st
    ELSE IF ReceiptMatch1(strip(raw)).matched THEN ReceiptPattern1(st, ReceiptMatch1(strip(raw)))
    ELSE ReceiptPattern2(st, ReceiptMatch2(strip(raw)))

RECURSIVE ReceiptItemsLoop(_, _, _)
ReceiptItemsLoop(st, text_lines, k) ==
    IF k > Len(text_lines) \/ st.error # "" THEN st
    ELSE ReceiptItemsLoop(ReceiptItemsStep(st, text_lines[k]), text_lines, k + 1)

parse_receipt_items(text) ==
    LET st == ReceiptItemsLoop([items |-> <<>>, error |-> ""], split(text, "\n"), 1)
    IN  [error |-> st.error, items |-> IF st.error = "" THEN st.items ELSE <<>>]

(***************************************************************************)
(* Dates: pd.to_datetime(format='%m/%d/%Y', errors='coerce'), strftime     *)
(***************************************************************************)
\* a calendar date is <<year, month, day>>; NaT is the missing date
NaT == <<0, 0, 0>>

IsLeap(y) == (y % 4 = 0 /\ y % 100 # 0) \/ y % 400 = 0

DaysInMonth(y, m) == IF m \in {4, 6, 9, 11} THEN 30
                     ELSE IF m = 2 THEN (IF IsLeap(y) THEN 29 ELSE 28)
                     ELSE 31

DateLess(a, b) == \/ a[1] < b[1]
                  \/ a[1] = b[1] /\ a[2] < b[2]
                  \/ a[1] = b[1] /\ a[2] = b[2] /\ a[3] < b[3]

\* the dates a datetime64[ns] holds at midnight
TimestampMin == <<1677, 9, 22>>

TimestampMax == <<2262, 4, 11>>

\* pd.to_datetime(s, format='%m/%d/%Y', errors='coerce') of one string: %m and %d
\* take one or two digits (no "0", no "00"), %Y takes four, the whole string must
\* match and name a date of the calendar; every other string is coerced to NaT.
to_datetime(s) ==
    LET p == split(s, "/")
    IN  IF Len(p) # 3 THEN NaT
        ELSE IF ~(/\ AllDigits(p[1]) /\ Len(p[1]) <= 2 /\ int(p[1]) \in 1..12
                  /\ AllDigits(p[2]) /\ Len(p[2]) <= 2 /\ int(p[2]) \in 1..31
                  /\ AllDigits(p[3]) /\ Len(p[3]) = 4)
        THEN NaT
        ELSE LET d == <<int(p[3]), int(p[1]), int(p[2])>>
             IN  IF /\ d[3] <= DaysInMonth(d[1], d[2])
                    /\ ~DateLess(d, TimestampMin) /\ ~DateLess(TimestampMax, d)
                 THEN d ELSE NaT

\* n written with w digits, zero padded
RECURSIVE Pad(_, _)
Pad(n, w) == IF w = 0 THEN "" ELSE Pad(n \div 10, w - 1) \o Ch(DigitChars, (n % 10) + 1)

\* Timestamp.strftime('%m/%d/%Y')
strftime(d) == Pad(d[2], 2) \o "/" \o Pad(d[3], 2) \o "/" \o Pad(d[1], 4)

\* a datetime64 column as to_csv writes it
IsoDate(d) == Pad(d[1], 4) \o "-" \o Pad(d[2], 2) \o "-" \o Pad(d[3], 2)

(***************************************************************************)
(* Sorting                                                                 *)
(***************************************************************************)
\* s sorted by a strict order, less[i][j] telling whether s[i] comes before s[j];
\* equal elements keep their order when ties = "keep" and are reversed when
\* ties = "reverse"
SortedBy(s, less, ties) ==
    LET first(j, i) == IF ties = "keep" THEN j < i ELSE j > i
        rank(i) == Cardinality({j \in 1..Len(s) :
                       less[j][i] \/ (~less[i][j] /\ first(j, i))}) + 1
    IN  [r \in 1..Len(s) |-> s[CHOOSE i \in 1..Len(s) : rank(i) = r]]

(***************************************************************************)
(* Price History Builder                                                   *)
(***************************************************************************)
PriceColumns == <<"date", "item_name", "price_per_item", "document_number", "document_type">>

RECURSIVE InvoicePriceData(_)
InvoicePriceData(invoice_docs) ==
    IF invoice_docs = <<>> THEN <<>>
    ELSE LET invoice == Head(invoice_docs)
         IN  [i \in 1..Len(invoice.items) |->
                 [date            |-> invoice.date,
                  item_name       |-> invoice.items[i].description,
                  price_per_item  |-> invoice.items[i].rate,
                  document_number |-> invoice.invoice_number,
                  document_type   |-> "invoice"]]
             \o InvoicePriceData(Tail(invoice_docs))

RECURSIVE ReceiptPriceData(_)
ReceiptPriceData(receipt_docs) ==
    IF receipt_docs = <<>> THEN <<>>
    ELSE LET receipt == Head(receipt_docs)
         IN  [i \in 1..Len(receipt.items) |->
                 [date            |-> receipt.date,
                  item_name       |-> receipt.items[i].description,
                  price_per_item  |-> receipt.items[i].rate,
                  document_number |-> receipt.receipt_number,
                  document_type   |-> "receipt"]]
             \o ReceiptPriceData(Tail(receipt_docs))

\* ItemDateLess that leaves the date out of the sort key
ItemDateLess_name_only(a, b) == StrLess(a.item_name, b.item_name)

\* the order of df.sort_values(['item_name', 'date'])
ItemDateLess(a, b) == \/ StrLess(a.item_name, b.item_name)
                      \/ a.item_name = b.item_name /\ DateLess(a.date, b.date)

\* df.sort_values(['item_name', 'date']): a multi-column sort is a stable lexsort
SortByItemDate(rows) ==
    SortedBy(rows, [i \in DOMAIN rows |-> [j \in DOMAIN rows |-> ItemDateLess(rows[i], rows[j])]],
             "keep")

\* the rows of price_data with the date column converted by pd.to_datetime
ConvertDates(price_data) == [i \in 1..Len(price_data) |->
                                [price_data[i] EXCEPT !.date = to_datetime(@)]]

\* DropNaT that keeps the rows whose date did not parse
DropNaT_keep(rows) == rows

\* df.dropna(subset=['date'])
DropNaT(rows) == SelectSeq(rows, LAMBDA r : r.date # NaT)

\* The DataFrame create_price_tracking returns: pd.DataFrame([]) has no columns
\* and is returned as it is; any other frame has its dates converted, the rows
\* without a date dropped and the rest sorted by item_name, then date (a
\* multi-column sort_values is a stable lexsort).
create_price_tracking(invoice_docs, receipt_docs) ==
    LET price_data == InvoicePriceData(invoice_docs) \o ReceiptPriceData(receipt_docs)
    IN  IF Len(price_data) = 0 THEN [columns |-> <<>>, rows |-> <<>>]
        ELSE [columns |-> PriceColumns,
              rows    |-> SortByItemDate(DropNaT(ConvertDates(price_data)))]

(***************************************************************************)
(* Price Change Analyzer                                                   *)
(***************************************************************************)
\* price_df['item_name'].unique(): the names in order of first appearance
unique(rows) ==
    LET firsts == SelectSeq([i \in 1..Len(rows) |-> i],
                            LAMBDA i : \A j \in 1..(i - 1) : rows[j].item_name # rows[i].item_name)
    IN  [k \in 1..Len(firsts) |-> rows[firsts[k]].item_name]

\* curr - prev on floats: a signed rational in lowest terms
RatSub(curr, prev) ==
    LET n == curr[1] * prev[2] - prev[1] * curr[2]
        d == curr[2] * prev[2]
        g == Gcd(IF n < 0 THEN -n ELSE n, d)
    IN  <<n \div g, d \div g>>

\* n/d cut off towards zero in the place of rounded
RoundHalfEven_trunc(n, d) == IF n < 0 THEN -((-n) \div d) ELSE n \div d

\* n/d (d > 0) rounded to the nearest integer, halves to the even one
RoundHalfEven(n, d) ==
    LET a  == IF n < 0 THEN -n ELSE n
        q  == a \div d
        r  == a % d
        m  == IF 2 * r > d \/ (2 * r = d /\ q % 2 = 1) THEN q + 1 ELSE q
    IN  IF n < 0 THEN -m ELSE m

\* round(((curr_price - prev_price) / prev_price) * 100, 2), in hundredths of a
\* percent.  The prices are numpy float64: a division by 0.0 warns and yields
\* inf (curr_price > 0 here), which round() and to_csv pass on.
PercentageChange(prev_price, curr_price) ==
    IF prev_price[1] = 0 THEN [kind |-> "inf", hundredths |-> 0]
    ELSE [kind |-> "finite",
          hundredths |-> RoundHalfEven(
              (curr_price[1] * prev_price[2] - prev_price[1] * curr_price[2]) * 10000,
              curr_price[2] * prev_price[1])]

\* item_prices.sort_values('date'): the default kind is quicksort, whose order
\* of equal dates depends on the numpy build; ties is the order this build gives
SortByDate(item_prices, ties) ==
    SortedBy(item_prices,
             [i \in DOMAIN item_prices |->
                 [j \in DOMAIN item_prices |-> DateLess(item_prices[i].date, item_prices[j].date)]],
             ties)

\* ItemPriceChanges that compares every record with the first of the series
ItemPriceChanges_first(item_name, item_prices) ==
    LET differ == SelectSeq([k \in 1..(Len(item_prices) - 1) |-> k + 1],
                            LAMBDA i : item_prices[1].price_per_item
                                       # item_prices[i].price_per_item)
    IN  [k \in 1..Len(differ) |->
            [item_name         |-> item_name,
             previous_date     |-> strftime(item_prices[1].date),
             current_date      |-> strftime(item_prices[differ[k]].date),
             previous_price    |-> item_prices[1].price_per_item,
             current_price     |-> item_prices[differ[k]].price_per_item,
             price_change      |-> RatSub(item_prices[differ[k]].price_per_item,
                                          item_prices[1].price_per_item),
             percentage_change |-> PercentageChange(item_prices[1].price_per_item,
                                                    item_prices[differ[k]].price_per_item)]]

\* the body of the loop over i in range(1, len(item_prices))
ItemPriceChanges(item_name, item_prices) ==
    LET differ == SelectSeq([k \in 1..(Len(item_prices) - 1) |-> k + 1],
                            LAMBDA i : item_prices[i - 1].price_per_item
                                       # item_prices[i].price_per_item)
    IN  [k \in 1..Len(differ) |->
            LET prev == item_prices[differ[k] - 1]
                curr == item_prices[differ[k]]
            IN  [item_name         |-> item_name,
                 previous_date     |-> strftime(prev.date),
                 current_date      |-> strftime(curr.date),
                 previous_price    |-> prev.price_per_item,
                 current_price     |-> curr.price_per_item,
                 price_change      |-> RatSub(curr.price_per_item, prev.price_per_item),
                 percentage_change |-> PercentageChange(prev.price_per_item,
                                                        curr.price_per_item)]]

\* PriceChangesOf that takes the rows of an item by their name in upper case
RECURSIVE PriceChangesOf_anycase(_, _, _)
PriceChangesOf_anycase(names, rows, ties) ==
    IF names = <<>> THEN <<>>
    ELSE ItemPriceChanges(Head(names),
                          SortByDate(SelectSeq(rows, LAMBDA r : upper(r.item_name) = upper(Head(names))),
                                     ties))
         \o PriceChangesOf_anycase(Tail(names), rows, ties)

RECURSIVE PriceChangesOf(_, _, _)
PriceChangesOf(names, rows, ties) ==
    IF names = <<>> THEN <<>>
    ELSE ItemPriceChanges(Head(names),
                          SortByDate(SelectSeq(rows, LAMBDA r : r.item_name = Head(names)), ties))
         \o PriceChangesOf(Tail(names), rows, ties)

\* The list price_changes that analyze_price_changes builds, or the KeyError that
\* price_df['item_name'] raises on a frame without columns.
analyze_price_changes(df, ties) ==
    IF df.columns = <<>> THEN [error |-> "KeyError", price_changes |-> <<>>]
    ELSE [error |-> "",
          price_changes |-> PriceChangesOf(unique(df.rows), df.rows, ties)]

(***************************************************************************)
(* The file system, and the Document Processor                             *)
(***************************************************************************)
StartsWith(s, p) == Len(s) >= Len(p) /\ SubSeq(s, 1, Len(p)) = p

EndsWith(s, p) == Len(s) >= Len(p) /\ SubSeq(s, Len(s) - Len(p) + 1, Len(s)) = p

\* os.path.basename
basename(path) == LET parts == split(path, "/") IN parts[Len(parts)]

\* str.replace(old, new)
RECURSIVE replace(_, _, _)
replace(s, old, new) ==
    IF Len(s) < Len(old) THEN s
    ELSE IF SubSeq(s, 1, Len(old)) = old THEN new \o replace(From(s, Len(old) + 1), old, new)
    ELSE Ch(s, 1) \o replace(From(s, 2), old, new)

\* The files are a function from path to content.  A PDF is [readable, text]: the
\* text pdfplumber extracts from it, or not readable when pdfplumber raises.  A
\* table written by DataFrame.to_csv is [columns, rows].
invoice_dir == "Invoices"

items_file == "invoice_items.csv"

receipt_items_file == "receipt_items.csv"

combined_items_file == "combined_items.csv"

price_tracking_file == "price_tracking.csv"

price_changes_file == "price_changes.csv"

report_file == "price_increase_report.pdf"

\* WriteFile that appends the rows to those of a table already there
WriteFile_append(files, path, content) ==
    (path :> IF path \in DOMAIN files /\ files[path].columns = content.columns
             THEN [columns |-> content.columns, rows |-> files[path].rows \o content.rows]
             ELSE content) @@ files

WriteFile(files, path, content) == (path :> content) @@ files

\* Path(dir).glob("*.pdf"): the paths of the PDF files directly in dir
glob(files, dir) == {p \in DOMAIN files : /\ StartsWith(p, dir \o "/")
                                    /\ EndsWith(p, ".pdf")
                                    /\ ~Contains(From(p, Len(dir) + 2), "/")}

\* the listings a directory scan may return: the paths in any order
Listings(S) == {l \in [1..Cardinality(S) -> S] : \A p \in S : \E i \in DOMAIN l : l[i] = p}

\* pdf_files.sort()
SortPaths(pdf_files) ==
    SortedBy(pdf_files,
             [i \in DOMAIN pdf_files |->
                 [j \in DOMAIN pdf_files |-> StrLess(pdf_files[i], pdf_files[j])]],
             "keep")

Say(msg, path, n) == [msg |-> msg, path |-> path, n |-> n]

(***************************************************************************)
(* The texts of the PDF files of the model                                 *)
(***************************************************************************)
InvoiceTexts ==
    { "INVOICE 1001\nDATE 01/05/2024\nDESCRIPTION QTY RATE AMOUNT\nRICE 10 12.50 125.00\nDAL 2 3.00 6.00\nTOTAL DUE 131.00",
      "INVOICE 1002\nDATE 02/05/2024\nDESCRIPTION QTY RATE AMOUNT\nRICE 10 13.00 130.00\nDAL 1 3.00 3.00\nVERIFIED",
      "INVOICE 1003\nDATE 03/01/2024\nThank you" }

ReceiptTexts ==
    { "RECEIPT 77\n1/20/2024\nRICE 2 25.00\nTURMERIC POWDER 8.99\nTOTAL 33.99",
      "Receipt #78\n03-01-2024\nRICE 1 14.00",
      "RECEIPT 79\n01/25/2024\nRICE 1 1.2.3" }

\* The fields the parsers find in every text of the model, computed once and
\* looked up by InvoiceFields and ReceiptFields.
InvoiceFieldTable == {<<t, [invoice_number |-> parse_invoice_number(t),
                            date           |-> parse_invoice_date(t),
                            parsed         |-> parse_line_items(t)]>> : t \in InvoiceTexts}

InvoiceFields(text) == (CHOOSE p \in InvoiceFieldTable : p[1] = text)[2]

ReceiptFieldTable == {<<t, [receipt_number |-> parse_receipt_number(t),
                            date           |-> parse_receipt_date(t),
                            parsed         |-> parse_receipt_items(t)]>> : t \in ReceiptTexts}

ReceiptFields(text) == (CHOOSE p \in ReceiptFieldTable : p[1] = text)[2]

\* process_single_invoice(pdf_path): the invoice_data, or the exception raised by
\* extract_text_from_pdf or by a parser
InvoiceData(pdf_path, f) ==
    IF f.parsed.error # "" THEN [error |-> f.parsed.error, data |-> <<>>]
    ELSE [error |-> "",
          data  |-> [file_name      |-> basename(pdf_path),
                     invoice_number |-> f.invoice_number,
                     date           |-> f.date,
                     items          |-> f.parsed.items]]

process_single_invoice(files, pdf_path) ==
    IF ~files[pdf_path].readable THEN [error |-> "PDFSyntaxError", data |-> <<>>]
    ELSE InvoiceData(pdf_path, InvoiceFields(files[pdf_path].text))

ReceiptData(pdf_path, f) ==
    IF f.parsed.error # "" THEN [error |-> f.parsed.error, data |-> <<>>]
    ELSE [error |-> "",
          data  |-> [file_name      |-> basename(pdf_path),
                     receipt_number |-> f.receipt_number,
                     date           |-> f.date,
                     items          |-> f.parsed.items,
                     type           |-> "receipt"]]

process_single_receipt(files, pdf_path) ==
    IF ~files[pdf_path].readable THEN [error |-> "PDFSyntaxError", data |-> <<>>]
    ELSE ReceiptData(pdf_path, ReceiptFields(files[pdf_path].text))

\* BatchStep without the try/except: the first failure ends the batch
BatchStep_abort(msg, pdf_file, r, rest) ==
    IF r.error = ""
    THEN [docs   |-> <<r.data>> \o rest.docs,
          stdout |-> <<Say(msg, pdf_file, 0)>> \o rest.stdout]
    ELSE [docs   |-> <<>>,
          stdout |-> <<Say(msg, pdf_file, 0), Say("Error processing", pdf_file, 0)>>]

\* One iteration of the loop `for pdf_file in pdf_files: try ... except Exception`
\* of process_all_invoices and process_all_receipts: r is what processing the
\* file gave, rest what the later iterations append and print.
BatchStep(msg, pdf_file, r, rest) ==
    IF r.error = ""
    THEN [docs   |-> <<r.data>> \o rest.docs,
          stdout |-> <<Say(msg, pdf_file, 0)>> \o rest.stdout]
    ELSE [docs   |-> rest.docs,
          stdout |-> <<Say(msg, pdf_file, 0), Say("Error processing", pdf_file, 0)>> \o rest.stdout]

RECURSIVE InvoiceLoop(_, _, _)
InvoiceLoop(files, pdf_files, k) ==
    IF k > Len(pdf_files) THEN [docs |-> <<>>, stdout |-> <<>>]
    ELSE BatchStep("Processing", pdf_files[k],
                   process_single_invoice(files, pdf_files[k]),
                   InvoiceLoop(files, pdf_files, k + 1))

\* process_all_invoices(), with the listing glob returned
process_all_invoices(files, listing) == InvoiceLoop(files, SortPaths(listing), 1)

RECURSIVE ReceiptLoop(_, _, _)
ReceiptLoop(files, pdf_files, k) ==
    IF k > Len(pdf_files) THEN [docs |-> <<>>, stdout |-> <<>>]
    ELSE BatchStep("Processing receipt", pdf_files[k],
                   process_single_receipt(files, pdf_files[k]),
                   ReceiptLoop(files, pdf_files, k + 1))

ReceiptBatch(n, r) ==
    [docs |-> r.docs, stdout |-> <<Say("Found receipt files to process", "", n)>> \o r.stdout]

\* process_all_receipts(): receipts_dir is [path, exists], path "" when no
\* receipts directory was given
process_all_receipts(files, rdir, listing) ==
    IF rdir.path = "" \/ ~rdir.exists
    THEN [docs |-> <<>>, stdout |-> <<Say("No receipts directory specified or found.", "", 0)>>]
    ELSE ReceiptBatch(Len(listing), ReceiptLoop(files, SortPaths(listing), 1))

(***************************************************************************)
(* The tables run() writes                                                 *)
(***************************************************************************)
RECURSIVE Concat(_)
Concat(seqs) == IF seqs = <<>> THEN <<>> ELSE Head(seqs) \o Concat(Tail(seqs))

\* pd.DataFrame(rows) as to_csv writes it: a frame of no rows has no columns
Table(columns, rows) == [columns |-> IF rows = <<>> THEN <<>> ELSE columns, rows |-> rows]

ItemsColumns == <<"invoice_number", "date", "file_name", "item_name", "quantity",
                  "rate_per_item", "total_amount">>

ReceiptItemsColumns == <<"receipt_number", "date", "file_name", "item_name", "quantity",
                         "rate_per_item", "total_amount", "type">>

CombinedColumns == <<"document_number", "date", "file_name", "item_name", "quantity",
                     "rate_per_item", "total_amount", "type">>

IndividualColumns == <<"item_name", "quantity", "rate_per_item", "total_amount">>

ChangesColumns == <<"item_name", "previous_date", "current_date", "previous_price",
                    "current_price", "price_change", "percentage_change">>

InvoiceItemRows(invoice_docs) ==
    Concat([d \in 1..Len(invoice_docs) |->
              [i \in 1..Len(invoice_docs[d].items) |->
                  [invoice_number |-> invoice_docs[d].invoice_number,
                   date           |-> invoice_docs[d].date,
                   file_name      |-> invoice_docs[d].file_name,
                   item_name      |-> invoice_docs[d].items[i].description,
                   quantity       |-> invoice_docs[d].items[i].quantity,
                   rate_per_item  |-> invoice_docs[d].items[i].rate,
                   total_amount   |-> invoice_docs[d].items[i].amount]]])

save_items_data(files, invoice_docs) ==
    WriteFile(files, items_file, Table(ItemsColumns, InvoiceItemRows(invoice_docs)))

ReceiptItemRows(receipt_docs) ==
    Concat([d \in 1..Len(receipt_docs) |->
              [i \in 1..Len(receipt_docs[d].items) |->
                  [receipt_number |-> receipt_docs[d].receipt_number,
                   date           |-> receipt_docs[d].date,
                   file_name      |-> receipt_docs[d].file_name,
                   item_name      |-> receipt_docs[d].items[i].description,
                   quantity       |-> receipt_docs[d].items[i].quantity,
                   rate_per_item  |-> receipt_docs[d].items[i].rate,
                   total_amount   |-> receipt_docs[d].items[i].amount,
                   type           |-> "receipt"]]])

save_receipt_data(files, receipt_docs) ==
    IF receipt_docs = <<>> THEN files
    ELSE WriteFile(files, receipt_items_file, Table(ReceiptItemsColumns, ReceiptItemRows(receipt_docs)))

CombinedRows(docs, number, type) ==
    Concat([d \in 1..Len(docs) |->
              [i \in 1..Len(docs[d].items) |->
                  [document_number |-> docs[d][number],
                   date            |-> docs[d].date,
                   file_name       |-> docs[d].file_name,
                   item_name       |-> docs[d].items[i].description,
                   quantity        |-> docs[d].items[i].quantity,
                   rate_per_item   |-> docs[d].items[i].rate,
                   total_amount    |-> docs[d].items[i].amount,
                   type            |-> type]]])

save_combined_data(files, invoice_docs, receipt_docs) ==
    WriteFile(files, combined_items_file,
              Table(CombinedColumns,
                    CombinedRows(invoice_docs, "invoice_number", "invoice")
                    \o CombinedRows(receipt_docs, "receipt_number", "receipt")))

\* save_individual_invoice_csvs: one CSV beside the PDF of every invoice with items
RECURSIVE save_individual_invoice_csvs(_, _)
save_individual_invoice_csvs(files, invoice_docs) ==
    IF invoice_docs = <<>> THEN files
    ELSE LET invoice  == Head(invoice_docs)
             csv_path == invoice_dir \o "/" \o replace(invoice.file_name, ".pdf", ".csv")
             rows     == [i \in 1..Len(invoice.items) |->
                             [item_name     |-> invoice.items[i].description,
                              quantity      |-> invoice.items[i].quantity,
                              rate_per_item |-> invoice.items[i].rate,
                              total_amount  |-> invoice.items[i].amount]]
         IN  save_individual_invoice_csvs(
                 IF invoice.items = <<>> THEN files
                 ELSE WriteFile(files, csv_path, Table(IndividualColumns, rows)),
                 Tail(invoice_docs))

\* df.to_csv(self.price_tracking_file): the date column is written as ISO dates
PriceTrackingTable(df) ==
    [columns |-> df.columns,
     rows    |-> [i \in 1..Len(df.rows) |->
                     [df.rows[i] EXCEPT !.date = IsoDate(@)]]]

\* percentage_change > 0 on floats
IsIncrease(row) == row.percentage_change.kind = "inf" \/ row.percentage_change.hundredths > 0

PercentageLess(a, b) ==
    /\ a.percentage_change.kind = "finite"
    /\ \/ b.percentage_change.kind = "inf"
       \/ a.percentage_change.hundredths < b.percentage_change.hundredths

\* increases.sort_values('percentage_change', ascending=False)
SortIncreases(rows, ties) ==
    SortedBy(rows, [i \in DOMAIN rows |-> [j \in DOMAIN rows |-> PercentageLess(rows[j], rows[i])]],
             ties)

\* load_price_data(): None when there is no price_changes.csv, else its rows with
\* percentage_change > 0, sorted by percentage_change descending
load_price_data(files, ties) ==
    IF price_changes_file \notin DOMAIN files THEN [none |-> TRUE, rows |-> <<>>]
    ELSE [none |-> FALSE,
          rows |-> SortIncreases(SelectSeq(files[price_changes_file].rows, IsIncrease), ties)]

\* generate_price_report(): the report is written when there are increases
generate_price_report(files, ties) ==
    LET data == load_price_data(files, ties)
    IN  IF data.none \/ Len(data.rows) = 0 THEN files
        ELSE WriteFile(files, report_file, [columns |-> ChangesColumns, rows |-> data.rows])

(***************************************************************************)
(* run()                                                                   *)
(***************************************************************************)
\* The record run() is summed up in: the files it leaves, what it printed, the
\* exception that left it ("" when it returned) and its local variables.
RunResult(files, out, err, invoice_docs, receipt_docs, df, changes) ==
    [fs |-> files, stdout |-> out, error |-> err, invoices |-> invoice_docs,
     receipts |-> receipt_docs, price_df |-> df, price_changes |-> changes]

\* `if price_changes: ... changes_df.to_csv('price_changes.csv')` at the end of
\* analyze_price_changes
SaveChanges(files, changes) ==
    IF changes # <<>>
    THEN WriteFile(files, price_changes_file, [columns |-> ChangesColumns, rows |-> changes])
    ELSE files

\* run() from the end of the loop of analyze_price_changes on: files are the files after price_tracking.csv
\* was written, an is what analyze_price_changes gave
RunChanges(files, out, invoice_docs, receipt_docs, df, an, ties) ==
    IF an.error # ""
    THEN RunResult(files, out, an.error, invoice_docs, receipt_docs, df, <<>>)
    ELSE RunResult(generate_price_report(SaveChanges(files, an.price_changes), ties),
                   out \o <<IF an.price_changes = <<>>
                            THEN Say("No price changes detected across invoices", "", 0)
                            ELSE Say("Saved price changes", "", Len(an.price_changes)),
                            Say("Processing complete!", "", 0)>>,
                   "", invoice_docs, receipt_docs, df, an.price_changes)

\* run() from `price_df.to_csv(...)` on: files are the files after the combined
\* table was written, df is what create_price_tracking gave
RunPrices(files, out, invoice_docs, receipt_docs, df, ties) ==
    RunChanges(WriteFile(files, price_tracking_file, PriceTrackingTable(df)), out,
               invoice_docs, receipt_docs, df, analyze_price_changes(df, ties), ties)

\* the three `save` steps of run()
SaveDocuments(files, invoice_docs, receipt_docs) ==
    save_combined_data(
        IF receipt_docs # <<>>
        THEN save_receipt_data(
                 IF invoice_docs # <<>>
                 THEN save_individual_invoice_csvs(save_items_data(files, invoice_docs), invoice_docs)
                 ELSE files, receipt_docs)
        ELSE IF invoice_docs # <<>>
        THEN save_individual_invoice_csvs(save_items_data(files, invoice_docs), invoice_docs)
        ELSE files,
        invoice_docs, receipt_docs)

\* RunDocuments without the early return of `if not invoices and not receipts`
RunDocuments_noreturn(files, out, invoice_docs, receipt_docs, ties) ==
    RunPrices(SaveDocuments(files, invoice_docs, receipt_docs), out, invoice_docs,
              receipt_docs, create_price_tracking(invoice_docs, receipt_docs), ties)

\* run() once both batches are processed
RunDocuments(files, out, invoice_docs, receipt_docs, ties) ==
    IF invoice_docs = <<>> /\ receipt_docs = <<>>
    THEN RunResult(files, out \o <<Say("No invoices or receipts found to process", "", 0)>>,
                   "", invoice_docs, receipt_docs, NoFrame, <<>>)
    ELSE RunPrices(SaveDocuments(files, invoice_docs, receipt_docs), out, invoice_docs,
                   receipt_docs, create_price_tracking(invoice_docs, receipt_docs), ties)

RunBatches(files, inv, rec, ties) ==
    RunDocuments(files,
                 inv.stdout \o <<Say("Processed invoices", "", Len(inv.docs))>>
                     \o rec.stdout \o <<Say("Processed receipts", "", Len(rec.docs))>>,
                 inv.docs, rec.docs, ties)

\* run().  inv_listing and rec_listing are the listings the two globs return, ties
\* is the build's order of equal sort keys.
run(files, rdir, inv_listing, rec_listing, ties) ==
    RunBatches(files, process_all_invoices(files, inv_listing),
               process_all_receipts(files, rdir, rec_listing), ties)

(***************************************************************************)
(* Spec: run() called again and again on the same input files              *)
(***************************************************************************)
MaxPdfFiles == 2

MaxRuns == 2

PdfName(i) == Ch("abcdefghij", i) \o ".pdf"

PdfFiles(texts) == {[readable |-> FALSE, text |-> ""]} \cup {[readable |-> TRUE, text |-> t] : t \in texts}

\* every directory dir of n PDF files with the given contents
Directories(dir, n, contents) == [{dir \o "/" \o PdfName(i) : i \in 1..n} -> contents]

StaleChanges == [columns |-> ChangesColumns,
                 rows |-> <<[item_name         |-> "GHEE",
                             previous_date     |-> "01/01/2023",
                             current_date      |-> "02/01/2023",
                             previous_price    |-> <<5, 1>>,
                             current_price     |-> <<6, 1>>,
                             price_change      |-> <<1, 1>>,
                             percentage_change |-> [kind |-> "finite", hundredths |-> 2000]]>>]

StaleTable == [columns |-> <<"old">>, rows |-> <<[old |-> "row"]>>]

\* what an earlier use of the working directory may have left behind
LeftBehind ==
    { <<>>,
      (price_changes_file :> StaleChanges),
      (items_file :> StaleTable) @@ (receipt_items_file :> StaleTable)
        @@ (combined_items_file :> StaleTable) @@ (price_tracking_file :> StaleTable)
        @@ (price_changes_file :> StaleChanges) @@ (report_file :> StaleTable) }

\* self.receipts_dir of a processor constructed for a directory of n receipts
ReceiptDirs(n) ==
    {[path |-> "Receipts", exists |-> TRUE]}
    \cup (IF n = 0 THEN {NoDir, [path |-> "Receipts", exists |-> FALSE]} ELSE {})

Init ==
    /\ pc = "run"
    /\ sort_ties \in Ties
    /\ ParseIdle /\ PricesIdle
    /\ error = ""
    /\ \E ni \in 0..MaxPdfFiles :
       \E nr \in 0..(MaxPdfFiles - ni) :
       \E inv \in Directories(invoice_dir, ni, PdfFiles(InvoiceTexts)),
          rec \in Directories("Receipts", nr, PdfFiles(ReceiptTexts)),
          old \in LeftBehind :
          /\ fs = inv @@ rec @@ old
          /\ receipts_dir \in ReceiptDirs(nr)
    /\ stdout = <<>>
    /\ runs = 0
    /\ first_fs = <<>>

\* the state run() leaves when r is what it did
Ran(r) ==
    /\ fs' = r.fs
    /\ stdout' = r.stdout
    /\ error' = r.error
    /\ invoices' = r.invoices
    /\ receipts' = r.receipts
    /\ price_df' = r.price_df
    /\ price_changes' = r.price_changes
    /\ first_fs' = IF runs = 0 THEN r.fs ELSE first_fs

Run ==
    /\ pc = "run"
    /\ runs < MaxRuns
    /\ \E inv_listing \in Listings(glob(fs, invoice_dir)),
          rec_listing \in Listings(glob(fs, receipts_dir.path)) :
          Ran(run(fs, receipts_dir, inv_listing, rec_listing, sort_ties))
    /\ runs' = runs + 1
    /\ UNCHANGED <<pc, sort_ties, receipts_dir, parseVars>>

Next == Run

Spec == Init /\ [][Next]_vars

(***************************************************************************)
(* SpecParse: parse_line_items, one iteration of its loop at a time        *)
(***************************************************************************)
MaxLines == 4

\* the raw lines of the texts parse_line_items is called with
ParseLines == { "DESCRIPTION QTY RATE AMOUNT",
                "VERIFIED",
                "RICE 10 12.50 125.00",
                " DAL 2 1.2.3 6.00",
                "INVOICE 1 2.00 2.00",
                "SALT 0 3.00 0.00",
                "Thank you",
                "" }

InitParse ==
    /\ pc = "parse"
    /\ sort_ties = "keep"
    /\ lines \in UNION {[1..n -> ParseLines] : n \in 0..MaxLines}
    /\ line_no = 1
    /\ in_items_section = FALSE
    /\ items = <<>>
    /\ item_lines = <<>>
    /\ error = ""
    /\ PricesIdle /\ RunIdle

\* the state the loop of parse_line_items is in after the iteration that gave st
ParsedLine(st) ==
    /\ in_items_section' = st.in_items_section
    /\ item_lines' = IF Len(st.items) > Len(items) THEN Append(item_lines, line_no) ELSE item_lines
    /\ items' = st.items
    /\ error' = st.error

\* one iteration of `for line in lines`
ParseLine ==
    /\ pc = "parse"
    /\ error = ""
    /\ line_no <= Len(lines)
    /\ ParsedLine(LineItemsStep([in_items_section |-> in_items_section, items |-> items,
                                 error |-> ""], lines[line_no]))
    /\ line_no' = line_no + 1
    /\ UNCHANGED <<pc, sort_ties, lines, invoices, receipts, price_df, price_changes, runVars>>

\* `return items`, or the ValueError of float() leaving the function
ParseReturn ==
    /\ pc = "parse"
    /\ error # "" \/ line_no > Len(lines)
    /\ pc' = "parsed"
    /\ items' = IF error # "" THEN <<>> ELSE items
    /\ item_lines' = IF error # "" THEN <<>> ELSE item_lines
    /\ UNCHANGED <<sort_ties, lines, line_no, in_items_section, invoices, receipts, price_df,
                   price_changes, error, runVars>>

NextParse == ParseLine \/ ParseReturn

SpecParse == InitParse /\ [][NextParse]_vars

\* the line the loop tests: lines[k] stripped
Stripped(k) == strip(lines[k])

HeaderLines == {k \in DOMAIN lines : IsHeaderLine(Stripped(k))}

\* the lines after the first header line that hold a terminator word
TerminatorLines == {k \in DOMAIN lines : /\ HeaderLines # {}
                                          /\ k > MinOf(HeaderLines)
                                          /\ IsStopLine(Stripped(k))}

\* C5: every line that yielded a LineItem lies after the first header line and,
\* when a terminator line follows that header, before the first such line, and is
\* itself neither a header nor a terminator line.
C5_ItemsOnlyInFirstSection ==
    \A n \in DOMAIN item_lines :
        /\ HeaderLines # {}
        /\ item_lines[n] > MinOf(HeaderLines)
        /\ TerminatorLines # {} => item_lines[n] < MinOf(TerminatorLines)
        /\ item_lines[n] \notin HeaderLines
        /\ ~IsStopLine(Stripped(item_lines[n]))

\* in_items_section as the loop finds it at line k: the last header or terminator
\* line before k is a header line
RECURSIVE SectionAt(_)
SectionAt(k) ==
    IF k = 1 THEN FALSE
    ELSE IF IsHeaderLine(Stripped(k - 1)) THEN TRUE
    ELSE IF IsStopLine(Stripped(k - 1)) THEN FALSE
    ELSE SectionAt(k - 1)

\* the non-blank lines inside the items section
SectionLines == {k \in DOMAIN lines : /\ SectionAt(k)
                                       /\ ~IsHeaderLine(Stripped(k))
                                       /\ ~IsStopLine(Stripped(k))
                                       /\ Stripped(k) # ""}

\* the last three whitespace-separated fields of line k and the text before them
Fields(k) ==
    [amount      |-> LastField(Stripped(k)).last,
     rate        |-> LastField(LastField(Stripped(k)).head).last,
     quantity    |-> LastField(LastField(LastField(Stripped(k)).head).head).last,
     description |-> LastField(LastField(LastField(Stripped(k)).head).head).head]

\* the lines of the section that end in digits, decimal, decimal after a
\* description free of the excluded terms
ItemLines == {k \in SectionLines : /\ Fields(k).description # ""
                                    /\ AllDigits(Fields(k).quantity)
                                    /\ AllDecimal(Fields(k).rate)
                                    /\ AllDecimal(Fields(k).amount)
                                    /\ \A term \in {"BILL TO", "SHIP TO", "INVOICE"} :
                                           ~Contains(upper(Fields(k).description), term)}

\* C14: parse_line_items returns exactly one LineItem for every line of ItemLines,
\* in the order of the lines, whose quantity, rate and amount are the captured
\* fields and whose description is the text before them; no other line gives an
\* item or changes the items of another line.
C14_OneItemPerMatchingLine ==
    pc = "parsed" =>
        /\ Len(item_lines) = Cardinality(ItemLines)
        /\ \A n \in DOMAIN item_lines :
              /\ item_lines[n] \in ItemLines
              /\ \A j \in DOMAIN item_lines : j < n => item_lines[j] < item_lines[n]
              /\ items[n].description = Fields(item_lines[n]).description
              /\ items[n].quantity = int(Fields(item_lines[n]).quantity)
              /\ float(Fields(item_lines[n]).rate).ok
              /\ items[n].rate = float(Fields(item_lines[n]).rate).value
              /\ float(Fields(item_lines[n]).amount).ok
              /\ items[n].amount = float(Fields(item_lines[n]).amount).value

(***************************************************************************)
(* SpecReceipt: parse_receipt_items, one iteration of its loop at a time   *)
(***************************************************************************)
MaxTextLines == 3

\* the raw lines of the texts parse_receipt_items is called with
ReceiptLines == { "RICE 2 1.50",
                  "SALT 0 3.00",
                  "Invoice 5 3.00",
                  "TURMERIC POWDER 8.99",
                  "Total 45.00",
                  " DAL 1 1.2.3",
                  "" }

InitReceipt ==
    /\ pc = "receipt"
    /\ sort_ties = "keep"
    /\ lines \in UNION {[1..n -> ReceiptLines] : n \in 0..MaxTextLines}
    /\ line_no = 1
    /\ in_items_section = FALSE
    /\ items = <<>>
    /\ item_lines = <<>>
    /\ error = ""
    /\ PricesIdle /\ RunIdle

\* the state the loop of parse_receipt_items is in after the iteration that gave st;
\* the line is recorded once for every item the iteration appended
ReceiptParsedLine(st) ==
    /\ item_lines' = item_lines \o [n \in 1..(Len(st.items) - Len(items)) |-> line_no]
    /\ items' = st.items
    /\ error' = st.error

\* one iteration of `for line in lines`
ReceiptLine ==
    /\ pc = "receipt"
    /\ error = ""
    /\ line_no <= Len(lines)
    /\ ReceiptParsedLine(ReceiptItemsStep([items |-> items, error |-> ""], lines[line_no]))
    /\ line_no' = line_no + 1
    /\ UNCHANGED <<pc, sort_ties, lines, in_items_section, invoices, receipts, price_df,
                   price_changes, runVars>>

\* `return items`, or the ValueError of float() leaving the function
ReceiptReturn ==
    /\ pc = "receipt"
    /\ error # "" \/ line_no > Len(lines)
    /\ pc' = "receipt_parsed"
    /\ items' = IF error # "" THEN <<>> ELSE items
    /\ item_lines' = IF error # "" THEN <<>> ELSE item_lines
    /\ UNCHANGED <<sort_ties, lines, line_no, in_items_section, invoices, receipts, price_df,
                   price_changes, error, runVars>>

NextReceipt == ReceiptLine \/ ReceiptReturn

SpecReceipt == InitReceipt /\ [][NextReceipt]_vars

\* the items the line k appended
ItemsOfLine(k) == {n \in DOMAIN item_lines : item_lines[n] = k}

\* the lines pattern 1 matches
Pattern1Lines == {k \in DOMAIN lines : Stripped(k) # "" /\ ReceiptMatch1(Stripped(k)).matched}

\* C11: a line gives at most one LineItem; a line pattern 1 matches gives the item
\* of pattern 1 (its description stops before the quantity) and never one of
\* pattern 2, and gives none when its description holds a skip term of pattern 1.
C11_Pattern1NeverRetried ==
    pc \in {"receipt", "receipt_parsed"} =>
        /\ \A k \in DOMAIN lines : Cardinality(ItemsOfLine(k)) <= 1
        /\ \A k \in Pattern1Lines :
              /\ \A n \in ItemsOfLine(k) :
                    items[n].description = strip(ReceiptMatch1(Stripped(k)).description)
              /\ (\E term \in {"BILL TO", "SHIP TO", "INVOICE"} :
                      Contains(upper(ReceiptMatch1(Stripped(k)).description), term))
                 => ItemsOfLine(k) = {}

\* parse_receipt_items went through a line pattern 1 accepted, which gave one item,
\* and a line pattern 1 matched and rejected, which gave none
C11_Witness ==
    /\ pc = "receipt_parsed"
    /\ error = ""
    /\ \E k \in Pattern1Lines : Stripped(k) = "Invoice 5 3.00" /\ ItemsOfLine(k) = {}
    /\ \E k \in Pattern1Lines : Cardinality(ItemsOfLine(k)) = 1

\* the amount a receipt line ends in
LineAmount(k) == float(LastField(Stripped(k)).last).value

\* the quantity of a line pattern 1 matches: the field before the amount
LineQuantity(k) == int(LastField(LastField(Stripped(k)).head).last)

\* C15: an item of pattern 1 with quantity q and amount a has unit rate a / q when
\* q > 0 and a when q = 0; an item of pattern 2 with amount a has quantity 1 and
\* unit rate = amount = a.
C15_ReceiptUnitRate ==
    pc \in {"receipt", "receipt_parsed"} =>
        \A n \in DOMAIN items :
            /\ items[n].amount = LineAmount(item_lines[n])
            /\ item_lines[n] \in Pattern1Lines =>
                  /\ items[n].quantity = LineQuantity(item_lines[n])
                  /\ items[n].quantity > 0 =>
                        items[n].rate[1] * items[n].quantity * items[n].amount[2]
                            = items[n].amount[1] * items[n].rate[2]
                  /\ items[n].quantity = 0 => items[n].rate = items[n].amount
            /\ item_lines[n] \notin Pattern1Lines =>
                  /\ items[n].quantity = 1
                  /\ items[n].rate = items[n].amount

\* parse_receipt_items returned 'RICE 2 1.50' at 0.75 a piece, 'SALT 0 3.00' at
\* 3.00 and 'TURMERIC POWDER 8.99' as one piece at 8.99
C15_Witness ==
    /\ pc = "receipt_parsed"
    /\ \E n \in DOMAIN items : /\ items[n].description = "RICE" /\ items[n].quantity = 2
                               /\ items[n].rate = <<3, 4>> /\ items[n].amount = <<3, 2>>
    /\ \E n \in DOMAIN items : /\ items[n].description = "SALT" /\ items[n].quantity = 0
                               /\ items[n].rate = <<3, 1>>
    /\ \E n \in DOMAIN items : /\ items[n].description = "TURMERIC POWDER"
                               /\ items[n].quantity = 1
                               /\ items[n].rate = <<899, 100>> /\ items[n].amount = <<899, 100>>

(***************************************************************************)
(* SpecItems: both item parsers, on the texts of SpecParse and SpecReceipt *)
(***************************************************************************)
\* an invoice text of up to MaxTextLines lines, or a receipt text of SpecReceipt
InitItems ==
    \/ /\ pc = "parse"
       /\ sort_ties = "keep"
       /\ lines \in UNION {[1..n -> ParseLines] : n \in 0..MaxTextLines}
       /\ line_no = 1
       /\ in_items_section = FALSE
       /\ items = <<>>
       /\ item_lines = <<>>
       /\ error = ""
       /\ PricesIdle /\ RunIdle
    \/ InitReceipt

NextItems == ParseLine \/ ParseReturn \/ ReceiptLine \/ ReceiptReturn

SpecItems == InitItems /\ [][NextItems]_vars

\* C12 as stated: every LineItem either parser produced has an integer quantity
\* >= 1, a unit rate >= 0 and an amount >= 0.
C12_QuantityAtLeastOne ==
    \A n \in DOMAIN items :
        /\ items[n].quantity \in Nat /\ items[n].quantity >= 1
        /\ items[n].rate[1] >= 0 /\ items[n].rate[2] > 0
        /\ items[n].amount[1] >= 0 /\ items[n].amount[2] > 0

\* C12: every LineItem either parser produced has an integer quantity >= 0 (the
\* quantity 0 is captured like any other), a unit rate >= 0 and an amount >= 0.
C12_QuantityNotNegative ==
    \A n \in DOMAIN items :
        /\ items[n].quantity \in Nat
        /\ items[n].rate[1] >= 0 /\ items[n].rate[2] > 0
        /\ items[n].amount[1] >= 0 /\ items[n].amount[2] > 0

\* a parser returned a LineItem of quantity 0 next to one whose rate is a quotient
C12_Witness ==
    /\ pc \in {"parsed", "receipt_parsed"}
    /\ \E n \in DOMAIN items : items[n].quantity = 0 /\ items[n].rate = items[n].amount
    /\ \E n \in DOMAIN items : items[n].quantity > 1 /\ items[n].rate # items[n].amount

\* the items pattern 2 of parse_receipt_items appended
Pattern2Items == {n \in DOMAIN items : /\ pc \in {"receipt", "receipt_parsed"}
                                        /\ item_lines[n] \notin Pattern1Lines}

\* C13: no LineItem has a description that holds, in any case, BILL TO, SHIP TO or
\* INVOICE, and no LineItem of receipt pattern 2 has one that holds TOTAL, TAX,
\* SUBTOTAL, PAYMENT, CHANGE, CASH or CREDIT.
C13_ExclusionLists ==
    /\ \A n \in DOMAIN items : \A term \in {"BILL TO", "SHIP TO", "INVOICE"} :
           ~Contains(upper(items[n].description), term)
    /\ \A n \in Pattern2Items :
           \A term \in {"TOTAL", "TAX", "SUBTOTAL", "PAYMENT", "CHANGE", "CASH", "CREDIT"} :
               ~Contains(upper(items[n].description), term)

\* parse_receipt_items returned the item of a pattern-2 line and none for the
\* lines 'Total 45.00' and 'Invoice 5 3.00' of the same text
C13_Witness ==
    /\ pc = "receipt_parsed"
    /\ error = ""
    /\ \E k \in DOMAIN lines : lines[k] = "Total 45.00" /\ ItemsOfLine(k) = {}
    /\ \E k \in DOMAIN lines : lines[k] = "Invoice 5 3.00" /\ ItemsOfLine(k) = {}
    /\ Pattern2Items # {}

\* a raw invoice line the item pattern matches with a rate or an amount that
\* float() does not take
MalformedInvoiceLine(raw) ==
    /\ InvoiceItemMatch(strip(raw)).matched
    /\ ~float(InvoiceItemMatch(strip(raw)).rate).ok
          \/ ~float(InvoiceItemMatch(strip(raw)).amount).ok

\* a raw receipt line that ends in an amount float() does not take
MalformedReceiptLine(raw) ==
    /\ LastField(strip(raw)).ok
    /\ AllDecimal(LastField(strip(raw)).last)
    /\ ~float(LastField(strip(raw)).last).ok

\* C19: a malformed item line costs that line only: each parser returns, without
\* raising, the items it returns for the text without its malformed lines.
C19_MalformedLineSkipped ==
    /\ pc = "parsed" =>
          /\ error = ""
          /\ items = LineItemsLoop([in_items_section |-> FALSE, items |-> <<>>, error |-> ""],
                                   SelectSeq(lines, LAMBDA raw : ~MalformedInvoiceLine(raw)), 1).items
    /\ pc = "receipt_parsed" =>
          /\ error = ""
          /\ items = ReceiptItemsLoop([items |-> <<>>, error |-> ""],
                                      SelectSeq(lines, LAMBDA raw : ~MalformedReceiptLine(raw)), 1).items

(***************************************************************************)
(* SpecTrack: create_price_tracking on lists of documents                  *)
(***************************************************************************)
MaxItems == 3

\* The documents the line items are spread over: the invoices first, then the
\* receipts, each with the date string its date parser returned.
TrackDocuments ==
    << [type |-> "invoice", number |-> "1001", file_name |-> "a.pdf", date |-> "02/05/2024"],
       [type |-> "invoice", number |-> "1002", file_name |-> "b.pdf", date |-> "01/05/2024"],
       [type |-> "invoice", number |-> "1003", file_name |-> "c.pdf", date |-> ""],
       [type |-> "receipt", number |-> "77",   file_name |-> "a.pdf", date |-> "1/20/2024"],
       [type |-> "receipt", number |-> "78",   file_name |-> "b.pdf", date |-> "03-01-2024"] >>

TrackNames == {"RICE", "DAL"}

TrackItem(name) == [description |-> name, quantity |-> 1, rate |-> <<25, 2>>, amount |-> <<25, 2>>]

\* the items of document d when line item k of the input is item a[k][2] of
\* document a[k][1]
ItemsOf(a, d) ==
    [j \in 1..Cardinality({k \in DOMAIN a : a[k][1] = d}) |->
        TrackItem(a[CHOOSE k \in DOMAIN a :
                        /\ a[k][1] = d
                        /\ Cardinality({m \in 1..k : a[m][1] = d}) = j][2])]

InvoiceOf(a, d) ==
    [file_name      |-> TrackDocuments[d].file_name,
     invoice_number |-> TrackDocuments[d].number,
     date           |-> TrackDocuments[d].date,
     items          |-> ItemsOf(a, d)]

ReceiptOf(a, d) ==
    [file_name      |-> TrackDocuments[d].file_name,
     receipt_number |-> TrackDocuments[d].number,
     date           |-> TrackDocuments[d].date,
     items          |-> ItemsOf(a, d),
     type           |-> "receipt"]

\* the documents of one type that have a line item, in the order of their files
DocumentsWith(a, type) ==
    SelectSeq([d \in DOMAIN TrackDocuments |-> d],
              LAMBDA d : TrackDocuments[d].type = type /\ \E k \in DOMAIN a : a[k][1] = d)

InvoicesOf(a) == [j \in DOMAIN DocumentsWith(a, "invoice") |-> InvoiceOf(a, DocumentsWith(a, "invoice")[j])]

ReceiptsOf(a) == [j \in DOMAIN DocumentsWith(a, "receipt") |-> ReceiptOf(a, DocumentsWith(a, "receipt")[j])]

InitTrack ==
    /\ pc = "track"
    /\ sort_ties = "keep"
    /\ \E n \in 0..MaxItems :
       \E a \in [1..n -> (DOMAIN TrackDocuments) \X TrackNames] :
          /\ invoices = InvoicesOf(a)
          /\ receipts = ReceiptsOf(a)
    /\ price_df = NoFrame
    /\ price_changes = <<>>
    /\ error = ""
    /\ ParseIdle /\ RunIdle

\* price_df = self.create_price_tracking(invoices, receipts)
CreatePriceTracking ==
    /\ pc = "track"
    /\ price_df' = create_price_tracking(invoices, receipts)
    /\ pc' = "tracked"
    /\ UNCHANGED <<sort_ties, invoices, receipts, price_changes, error, parseVars, runVars>>

NextTrack == CreatePriceTracking

SpecTrack == InitTrack /\ [][NextTrack]_vars

\* the PriceRecord of a line item of a document, its date parsed
RecordOf(date, number, type, item) ==
    [date            |-> to_datetime(date),
     item_name       |-> item.description,
     price_per_item  |-> item.rate,
     document_number |-> number,
     document_type   |-> type]

InvoiceItems == UNION {{<<d, i>> : i \in DOMAIN invoices[d].items} : d \in DOMAIN invoices}

ReceiptItems == UNION {{<<d, i>> : i \in DOMAIN receipts[d].items} : d \in DOMAIN receipts}

InvoiceRecord(x) == RecordOf(invoices[x[1]].date, invoices[x[1]].invoice_number, "invoice",
                             invoices[x[1]].items[x[2]])

ReceiptRecord(x) == RecordOf(receipts[x[1]].date, receipts[x[1]].receipt_number, "receipt",
                             receipts[x[1]].items[x[2]])

\* C6: the frame create_price_tracking returns holds each record as many times
\* as there are line items it is the record of, when the date string of their
\* document parses under %m/%d/%Y, and not at all when it does not: one record
\* for each item of a dated document, none for the others, none with a date that
\* is not the parsed date of its document.
C6_OneRecordPerDatedItem ==
    pc = "tracked" =>
        \A r \in {price_df.rows[k] : k \in DOMAIN price_df.rows}
                 \cup {InvoiceRecord(x) : x \in InvoiceItems}
                 \cup {ReceiptRecord(x) : x \in ReceiptItems} :
            Cardinality({k \in DOMAIN price_df.rows : price_df.rows[k] = r})
                = IF r.date = NaT THEN 0
                  ELSE Cardinality({x \in InvoiceItems : InvoiceRecord(x) = r})
                       + Cardinality({x \in ReceiptItems : ReceiptRecord(x) = r})

\* two items of one dated document were kept, as equal records, and an item of
\* the receipt dated 03-01-2024 was dropped
C6_Witness ==
    /\ pc = "tracked"
    /\ \E d \in DOMAIN receipts : receipts[d].date = "03-01-2024"
    /\ Len(price_df.rows) = 2
    /\ price_df.rows[1] = price_df.rows[2]
    /\ price_df.rows[1].date = <<2024, 1, 20>>

\* C7: the rows create_price_tracking returns are in ascending order of
\* item_name and, among the rows of one item_name, of date.
C7_SortedByItemThenDate ==
    pc = "tracked" =>
        \A i, j \in DOMAIN price_df.rows :
            i < j => \/ StrLess(price_df.rows[i].item_name, price_df.rows[j].item_name)
                     \/ /\ price_df.rows[i].item_name = price_df.rows[j].item_name
                        /\ ~DateLess(price_df.rows[j].date, price_df.rows[i].date)

\* the items came in another order than the one they were returned in: RICE
\* before DAL, and the invoice of 02/05/2024 before the invoice of 01/05/2024
C7_Witness ==
    /\ pc = "tracked"
    /\ Len(invoices) = 2
    /\ invoices[1].items[1].description = "RICE"
    /\ Len(price_df.rows) = 3
    /\ price_df.rows[1].item_name = "DAL"
    /\ price_df.rows[2].document_number = "1002"
    /\ price_df.rows[3].document_number = "1001"

(***************************************************************************)
(* SpecAnalyze: analyze_price_changes on the frames the Builder returns    *)
(***************************************************************************)
MaxRecords == 4

AnalyzeNames == {"RICE", "Rice"}

AnalyzeDates == {<<2024, 1, 5>>, <<2024, 2, 5>>}

AnalyzePrices == {<<0, 1>>, <<10, 1>>, <<12, 1>>}

AnalyzeRecords ==
    {[date |-> d, item_name |-> n, price_per_item |-> p,
      document_number |-> "1001", document_type |-> "invoice"] :
        d \in AnalyzeDates, n \in AnalyzeNames, p \in AnalyzePrices}

\* the sequences of n records in the order create_price_tracking leaves them in
RECURSIVE SortedRows(_)
SortedRows(n) ==
    IF n = 0 THEN {<<>>}
    ELSE UNION {{Append(s, r) : r \in {x \in AnalyzeRecords :
                                           s = <<>> \/ ~ItemDateLess(x, s[Len(s)])}} :
                s \in SortedRows(n - 1)}

\* the frames create_price_tracking returns: the frame without columns, and the
\* sorted frames of up to MaxRecords rows
BuilderFrames ==
    {NoFrame} \cup {[columns |-> PriceColumns, rows |-> s] :
                       s \in UNION {SortedRows(n) : n \in 0..MaxRecords}}

InitAnalyze ==
    /\ pc = "analyze"
    /\ sort_ties \in Ties
    /\ invoices = <<>> /\ receipts = <<>>
    /\ price_df \in BuilderFrames
    /\ price_changes = <<>>
    /\ error = ""
    /\ ParseIdle /\ RunIdle

\* the state analyze_price_changes leaves when an is what it computed
Analyzed(an) ==
    /\ price_changes' = an.price_changes
    /\ error' = an.error
    /\ fs' = IF an.error = "" THEN SaveChanges(fs, an.price_changes) ELSE fs

\* self.analyze_price_changes(price_df)
AnalyzePriceChanges ==
    /\ pc = "analyze"
    /\ Analyzed(analyze_price_changes(price_df, sort_ties))
    /\ pc' = "analyzed"
    /\ UNCHANGED <<sort_ties, invoices, receipts, price_df, parseVars,
                   receipts_dir, stdout, runs, first_fs>>

NextAnalyze == AnalyzePriceChanges

SpecAnalyze == InitAnalyze /\ [][NextAnalyze]_vars

\* the records of one item in ascending order of date, as this build sorts them
Series(name) ==
    SortByDate(SelectSeq(price_df.rows, LAMBDA r : r.item_name = name), sort_ties)

\* the events emitted for one item, in the order they were emitted
Events(name) == SelectSeq(price_changes, LAMBDA e : e.item_name = name)

\* the positions i of the series of an item whose pair (i-1, i) differs in price
Differing(name) ==
    {i \in 2..Len(Series(name)) :
        Series(name)[i - 1].price_per_item # Series(name)[i].price_per_item}

\* the k-th smallest element of the set S of numbers
Kth(S, k) == CHOOSE x \in S : Cardinality({y \in S : y < x}) = k - 1

\* event e pairs the records prev and curr
Pairs(e, prev, curr) ==
    /\ e.previous_date = strftime(prev.date)
    /\ e.current_date = strftime(curr.date)
    /\ e.previous_price = prev.price_per_item
    /\ e.current_price = curr.price_per_item

\* C1: every event bears an item_name of the frame, and for every item_name of
\* the frame (an exact string) the events emitted for it are, in order, the
\* adjacent pairs of its date-ascending series whose prices differ: as many
\* events as differing pairs, the k-th event pairing the k-th differing pair.
C1_EventsAreDifferingPairs ==
    (pc = "analyzed" /\ error = "") =>
        /\ \A k \in DOMAIN price_changes :
              \E i \in DOMAIN price_df.rows :
                  price_df.rows[i].item_name = price_changes[k].item_name
        /\ \A name \in {price_df.rows[i].item_name : i \in DOMAIN price_df.rows} :
              /\ \A i, j \in DOMAIN Series(name) :
                    i < j => ~DateLess(Series(name)[j].date, Series(name)[i].date)
              /\ Len(Events(name)) = Cardinality(Differing(name))
              /\ \A k \in DOMAIN Events(name) :
                    Pairs(Events(name)[k],
                          Series(name)[Kth(Differing(name), k) - 1],
                          Series(name)[Kth(Differing(name), k)])

\* RICE has an equal pair and a differing pair, and the one record of Rice,
\* next to a RICE record of another price, is paired with nothing
C1_Witness ==
    /\ pc = "analyzed"
    /\ Len(price_df.rows) = 4
    /\ Len(Series("RICE")) = 3
    /\ Len(Events("RICE")) = 1
    /\ price_df.rows[4].item_name = "Rice"
    /\ price_df.rows[4].price_per_item # price_df.rows[3].price_per_item
    /\ Len(price_changes) = 1

\* the events of an item that follow another event of that item
LaterEvents(name) == 2..Len(Events(name))

C3_NoEventFromZeroPrice ==
    pc = "analyzed" =>
        \A k \in DOMAIN price_changes :
            /\ price_changes[k].previous_price[1] # 0
            /\ price_changes[k].percentage_change.kind = "finite"

\* the absolute value of an integer
Abs(x) == IF x < 0 THEN -x ELSE x

\* numerator and denominator of (c - p) / p * 100, in hundredths of a percent
PercentNum(p, c) == (c[1] * p[2] - p[1] * c[2]) * 10000

PercentDen(p, c) == c[2] * p[1]

\* h is PercentNum / PercentDen rounded to the nearest integer, a half to the even one
IsRounded(h, p, c) ==
    /\ 2 * Abs(h * PercentDen(p, c) - PercentNum(p, c)) <= PercentDen(p, c)
    /\ 2 * Abs(h * PercentDen(p, c) - PercentNum(p, c)) = PercentDen(p, c) => h % 2 = 0

\* C16: every event with a previous price p > 0 and current price c has
\* price_change = c - p, which is not 0, and percentage_change = (c - p) / p * 100
\* rounded to 2 decimal places, which is never of the sign opposite to price_change.
C16_ChangeAndPercentage ==
    pc = "analyzed" =>
        \A k \in DOMAIN price_changes :
            price_changes[k].previous_price[1] > 0 =>
                /\ price_changes[k].price_change[1] * price_changes[k].current_price[2]
                                                    * price_changes[k].previous_price[2]
                     = (price_changes[k].current_price[1] * price_changes[k].previous_price[2]
                        - price_changes[k].previous_price[1] * price_changes[k].current_price[2])
                       * price_changes[k].price_change[2]
                /\ price_changes[k].price_change[2] > 0
                /\ price_changes[k].price_change[1] # 0
                /\ price_changes[k].percentage_change.kind = "finite"
                /\ IsRounded(price_changes[k].percentage_change.hundredths,
                             price_changes[k].previous_price, price_changes[k].current_price)
                /\ price_changes[k].price_change[1] > 0
                       => price_changes[k].percentage_change.hundredths >= 0
                /\ price_changes[k].price_change[1] < 0
                       => price_changes[k].percentage_change.hundredths <= 0

\* a rise from 10 to 12 emitted as +2 and 20.00 %, and a fall from 12 to 10
\* emitted as -2 and -16.67 %
C16_Witness ==
    /\ pc = "analyzed"
    /\ \E k \in DOMAIN price_changes :
          /\ price_changes[k].previous_price = <<10, 1>>
          /\ price_changes[k].current_price = <<12, 1>>
          /\ price_changes[k].price_change = <<2, 1>>
          /\ price_changes[k].percentage_change = [kind |-> "finite", hundredths |-> 2000]
    /\ \E k \in DOMAIN price_changes :
          /\ price_changes[k].previous_price = <<12, 1>>
          /\ price_changes[k].current_price = <<10, 1>>
          /\ price_changes[k].price_change = <<-2, 1>>
          /\ price_changes[k].percentage_change = [kind |-> "finite", hundredths |-> -1667]

\* the records of one item in the order create_price_tracking left them in, which
\* is ascending in date: the series a stable date sort gives
BuilderSeries(name) == SelectSeq(price_df.rows, LAMBDA r : r.item_name = name)

\* the positions of BuilderSeries whose pair (i-1, i) differs in price
BuilderDiffering(name) ==
    {i \in 2..Len(BuilderSeries(name)) :
        BuilderSeries(name)[i - 1].price_per_item # BuilderSeries(name)[i].price_per_item}

\* C17: records of an item that share a date are compared in the order the
\* Builder left them in: the events of every item are, in order, the differing
\* adjacent pairs of its records in Builder order.
C17_EqualDatesKeepBuilderOrder ==
    (pc = "analyzed" /\ error = "") =>
        \A name \in {price_df.rows[i].item_name : i \in DOMAIN price_df.rows} :
            /\ Len(Events(name)) = Cardinality(BuilderDiffering(name))
            /\ \A k \in DOMAIN Events(name) :
                  Pairs(Events(name)[k],
                        BuilderSeries(name)[Kth(BuilderDiffering(name), k) - 1],
                        BuilderSeries(name)[Kth(BuilderDiffering(name), k)])

(***************************************************************************)
(* Properties of run()                                                     *)
(***************************************************************************)
Printed(line) == \E i \in DOMAIN stdout : stdout[i] = line

OutputTables == {items_file, receipt_items_file, combined_items_file,
                 price_tracking_file, price_changes_file}

\* C4: a batch visits every PDF file of its directory, and the list it returns
\* holds exactly the documents of the files whose processing raised nothing, in
\* ascending order of file name; a file that fails adds no document and does not
\* stop the files after it.
C4_BatchSurvivesFailures ==
    runs >= 1 =>
        /\ \A p \in glob(fs, invoice_dir) :
              /\ Printed(Say("Processing", p, 0))
              /\ process_single_invoice(fs, p).error = ""
                     <=> \E i \in DOMAIN invoices : invoices[i].file_name = basename(p)
        /\ Len(invoices) <= Cardinality(glob(fs, invoice_dir))
        /\ \A i, j \in DOMAIN invoices :
              i < j => StrLess(invoices[i].file_name, invoices[j].file_name)
        /\ receipts_dir.exists =>
              \A p \in glob(fs, receipts_dir.path) :
                  /\ Printed(Say("Processing receipt", p, 0))
                  /\ process_single_receipt(fs, p).error = ""
                         <=> \E i \in DOMAIN receipts : receipts[i].file_name = basename(p)
        /\ Len(receipts) <= Cardinality(glob(fs, receipts_dir.path))
        /\ \A i, j \in DOMAIN receipts :
              i < j => StrLess(receipts[i].file_name, receipts[j].file_name)

\* the first file of the invoice directory failed and the second gave a document
C4_Witness ==
    /\ runs >= 1
    /\ "Invoices/a.pdf" \in DOMAIN fs
    /\ ~fs["Invoices/a.pdf"].readable
    /\ Len(invoices) = 1
    /\ invoices[1].file_name = "b.pdf"
    /\ \E i, j \in DOMAIN stdout : /\ i < j
                                   /\ stdout[i] = Say("Error processing", "Invoices/a.pdf", 0)
                                   /\ stdout[j] = Say("Processing", "Invoices/b.pdf", 0)

\* C8: whenever a run detects no price change (no document, no line item, no
\* record with a valid date, or equal prices), run() returns without an exception.
C8_EmptyResultFinishesNormally == (runs >= 1 /\ price_changes = <<>>) => error = ""

\* C9: a run that finds no invoice PDF and processes no receipt prints the two
\* zero counts and leaves every file as it was.
C9_NothingWritten ==
    [][(glob(fs, invoice_dir) = {} /\ receipts' = <<>>)
           => /\ fs' = fs
              /\ error' = ""
              /\ \E i \in DOMAIN stdout' : stdout'[i] = Say("Processed invoices", "", 0)
              /\ \E i \in DOMAIN stdout' : stdout'[i] = Say("Processed receipts", "", 0)]_vars

\* a run found no document while tables of an earlier run were there
C9_Witness ==
    /\ runs >= 1
    /\ glob(fs, invoice_dir) = {}
    /\ receipts = <<>>
    /\ Printed(Say("No invoices or receipts found to process", "", 0))
    /\ \A f \in OutputTables \ {price_changes_file} : f \in DOMAIN fs /\ fs[f] = StaleTable
    /\ fs[price_changes_file] = StaleChanges

\* C10: after a second run on the same input files every output table is what
\* the first run left, whatever was there before the first run.
C10_Idempotent ==
    runs >= 2 =>
        \A f \in OutputTables : /\ f \in DOMAIN fs <=> f \in DOMAIN first_fs
                                /\ f \in DOMAIN fs => fs[f] = first_fs[f]

\* two runs wrote tables with rows, a price change among them
C10_Witness ==
    /\ runs = 2
    /\ price_changes # <<>>
    /\ fs[price_changes_file].rows = price_changes
    /\ fs[items_file].rows # <<>>
\* C18: a report rendered by run() lists only price changes that this run
\* computed (the report file is then no longer what an earlier use left behind).
C18_ReportFromThisRun ==
    (runs >= 1 /\ report_file \in DOMAIN fs /\ fs[report_file] # StaleTable) =>
        \A i \in DOMAIN fs[report_file].rows :
            \E k \in DOMAIN price_changes : price_changes[k] = fs[report_file].rows[i]

====
